---- MODULE Spec2Model ----
(***************************************************************************)
(* ShelfMark (src/shelfmark.py): migrate the "read" shelf of a Goodreads   *)
(* export to Audiobookshelf.  The module models the text normalisers, the  *)
(* three matching tiers, the driver main() from the first index to the     *)
(* apply loop, and the confirmation gate.                                  *)
(*                                                                         *)
(* A Python str is a sequence of one-character strings; Python None is the *)
(* value None below, which is different from the empty string <<>>.        *)
(***************************************************************************)
EXTENDS Integers, Sequences, FiniteSets, TLC

VARIABLES
    pc,                     \* position of main()
    apply,                  \* args.apply
    read_books,             \* rows returned by load_goodreads_csv
    abs_items,              \* items returned by normalize_abs_items
    isbn_matches,           \* main: tier 1 pairs
    remaining,              \* main: tier 1 residual
    ta_matches,             \* main: tier 2 pairs
    still_unmatched,        \* main: tier 2 residual
    fuzzy_matches,          \* main: tier 3 pairs
    still_unmatched_final,  \* main: tier 3 residual
    offered,                \* history: the rows handed to fuzzy_match_title_author
    all_matches,            \* main: the final match list
    confirm,                \* raw text typed at the confirmation prompt
    calls,                  \* history: <<item id, ok>> of each mark_item_finished call
    success,                \* main: success counter
    failed,                 \* main: failed counter
    value,                  \* normaliser harness: the raw text
    once,                   \* normaliser harness: normalize_text(value)
    twice                   \* normaliser harness: normalize_text(once)

vars == <<pc, apply, read_books, abs_items, isbn_matches, remaining, ta_matches,
          still_unmatched, fuzzy_matches, still_unmatched_final, offered,
          all_matches, confirm, calls, success, failed, value, once, twice>>

(***************************************************************************)
(* Bounds of the model.                                                    *)
(***************************************************************************)
MaxBooks == 2
MaxItems == 2
MaxTextLen == 3

(***************************************************************************)
(* Python values                                                           *)
(***************************************************************************)
None == <<"None">>

\* Python truthiness of an Optional[str]: `not v`
IsFalsy(v) == v = None \/ v = <<>>

Min(S) == CHOOSE m \in S : \A n \in S : m <= n
Max(S) == CHOOSE m \in S : \A n \in S : m >= n

\* the lower-case letter of every upper-case letter
LowerOf == [A |-> "a", B |-> "b", C |-> "c", D |-> "d", E |-> "e", F |-> "f",
            G |-> "g", H |-> "h", I |-> "i", J |-> "j", K |-> "k", L |-> "l",
            M |-> "m", N |-> "n", O |-> "o", P |-> "p", Q |-> "q", R |-> "r",
            S |-> "s", T |-> "t", U |-> "u", V |-> "v", W |-> "w", X |-> "x",
            Y |-> "y", Z |-> "z"]
UpperChars == DOMAIN LowerOf
LowerChars == {LowerOf[c] : c \in UpperChars}
DigitChars == {"0","1","2","3","4","5","6","7","8","9"}

IsDigit(c) == c \in DigitChars
IsSpace(c) == c = " "
IsUpper(c) == c \in UpperChars
IsLower(c) == c \in LowerChars
\* the regex class \w
IsWord(c) == IsUpper(c) \/ IsLower(c) \/ IsDigit(c) \/ c = "_"
IsOpen(c) == c \in {"(", "["}
IsClose(c) == c \in {")", "]"}

ToLower(c) == IF IsUpper(c) THEN LowerOf[c] ELSE c

\* str.lower()
Lower(s) == [i \in 1..Len(s) |-> ToLower(s[i])]

\* str.lstrip(), str.rstrip(), str.strip()
RECURSIVE LStrip(_)
LStrip(s) == IF s # <<>> /\ IsSpace(s[1]) THEN LStrip(Tail(s)) ELSE s
RECURSIVE RStrip(_)
RStrip(s) ==
    IF s # <<>> /\ IsSpace(s[Len(s)]) THEN RStrip(SubSeq(s, 1, Len(s) - 1)) ELSE s
Strip(s) == RStrip(LStrip(s))

\* value.split(":")[0]
BeforeColon(s) ==
    LET cs == {i \in 1..Len(s) : s[i] = ":"}
    IN  IF cs = {} THEN s ELSE SubSeq(s, 1, Min(cs) - 1)

\* re.sub(r"\s*[\(\[].*?[\)\]]\s*$", "", value): the leftmost match starts at
\* the white space before the first opening bracket, provided the last
\* character that is not white space is a closing bracket to its right.
RemoveSeries(s) ==
    LET keep  == {i \in 1..Len(s) : ~IsSpace(s[i])}
        last  == IF keep = {} THEN 0 ELSE Max(keep)
        opens == {i \in 1..Len(s) : IsOpen(s[i]) /\ i < last}
    IN  IF last = 0 \/ ~IsClose(s[last]) \/ opens = {}
        THEN s
        ELSE LET q == Min(opens)
                 p == Min({i \in 1..q : \A j \in i..(q - 1) : IsSpace(s[j])})
             IN  SubSeq(s, 1, p - 1)

\* re.sub(r"[^\w\s]", "", value)
RemovePunct(s) == SelectSeq(s, LAMBDA c : IsWord(c) \/ IsSpace(c))

\* re.sub(r"\s+", " ", value)
RECURSIVE CollapseSpace(_)
CollapseSpace(s) ==
    IF Len(s) = 0 THEN <<>>
    ELSE LET front == CollapseSpace(SubSeq(s, 1, Len(s) - 1))
             c     == s[Len(s)]
         IN  IF IsSpace(c)
             THEN IF Len(s) > 1 /\ IsSpace(s[Len(s) - 1]) THEN front
                  ELSE Append(front, " ")
             ELSE Append(front, c)

normalize_isbn(v) ==
    IF IsFalsy(v) THEN None
    ELSE LET digits == SelectSeq(v, IsDigit)
         IN  IF digits # <<>> THEN digits ELSE None

normalize_text(v) ==
    IF IsFalsy(v) THEN None
    ELSE Strip(CollapseSpace(RemovePunct(RemoveSeries(BeforeColon(Strip(Lower(v)))))))

(***************************************************************************)
(* similarity: difflib.SequenceMatcher(None, a, b).ratio()                 *)
(* ratio = 2*M/T, M the characters in the matching blocks, T the sum of    *)
(* the lengths; the blocks are found by taking the longest common block    *)
(* (earliest in a, then earliest in b) and recursing on both sides of it.  *)
(* The ratio is kept exact as the pair <<2*M, T>>.                         *)
(***************************************************************************)
\* length of the common run of a[i..ahi] and b[j..bhi]
RECURSIVE CommonRun(_, _, _, _, _, _)
CommonRun(a, b, i, ahi, j, bhi) ==
    IF i > ahi \/ j > bhi \/ a[i] # b[j] THEN 0
    ELSE 1 + CommonRun(a, b, i + 1, ahi, j + 1, bhi)

\* SequenceMatcher.find_longest_match on a[alo..ahi], b[blo..bhi]
FindLongestMatch(a, b, alo, ahi, blo, bhi) ==
    LET cand == {<<i, j>> \in (alo..ahi) \X (blo..bhi) : a[i] = b[j]}
        run(p) == CommonRun(a, b, p[1], ahi, p[2], bhi)
    IN  IF cand = {} THEN [i |-> alo, j |-> blo, k |-> 0]
        ELSE LET best == CHOOSE p \in cand : \A q \in cand :
                            \/ run(p) > run(q)
                            \/ /\ run(p) = run(q)
                               /\ \/ p[1] < q[1]
                                  \/ p[1] = q[1] /\ p[2] <= q[2]
             IN  [i |-> best[1], j |-> best[2], k |-> run(best)]

\* SequenceMatcher.get_matching_blocks, summed
RECURSIVE Matches(_, _, _, _, _, _)
Matches(a, b, alo, ahi, blo, bhi) ==
    IF alo > ahi \/ blo > bhi THEN 0
    ELSE LET m == FindLongestMatch(a, b, alo, ahi, blo, bhi)
         IN  IF m.k = 0 THEN 0
             ELSE m.k + Matches(a, b, alo, m.i - 1, blo, m.j - 1)
                      + Matches(a, b, m.i + m.k, ahi, m.j + m.k, bhi)

similarity(a, b) == <<2 * Matches(a, b, 1, Len(a), 1, Len(b)), Len(a) + Len(b)>>

\* ratio >= th[1]/th[2]; ratio() of two empty strings is 1.0
AtLeast(ratio, th) ==
    IF ratio[2] = 0 THEN th[2] >= th[1] ELSE ratio[1] * th[2] >= th[1] * ratio[2]

(***************************************************************************)
(* Records.  A Goodreads row is <<row, Title, Author, ISBN13, ISBN>>, row  *)
(* being its position in the export (two rows with equal fields remain two *)
(* rows); an Audiobookshelf item is <<id, title, author, isbn>>.  A pair   *)
(* of a match list is <<book, item>>.                                      *)
(***************************************************************************)
Title(book)  == book[2]
Author(book) == book[3]
ISBN13(book) == book[4]
ISBN(book)   == book[5]

id(item)     == item[1]
title(item)  == item[2]
author(item) == item[3]
isbn(item)   == item[4]

\* dict[k] = v
Put(d, k, v) == [x \in (DOMAIN d) \cup {k} |-> IF x = k THEN v ELSE d[x]]

\* dict.setdefault(k, []).append(v)
AppendAt(d, k, v) ==
    [x \in (DOMAIN d) \cup {k} |->
        IF x = k THEN (IF k \in DOMAIN d THEN Append(d[k], v) ELSE <<v>>)
        ELSE d[x]]

\* dict.get(k, [])
GetList(d, k) == IF k \in DOMAIN d THEN d[k] ELSE <<>>

(***************************************************************************)
(* Tier 1: identifiers                                                     *)
(***************************************************************************)
RECURSIVE index_abs_items_by_isbn(_)
index_abs_items_by_isbn(items) ==
    IF items = <<>> THEN <<>>
    ELSE LET index == index_abs_items_by_isbn(SubSeq(items, 1, Len(items) - 1))
             item  == items[Len(items)]
             key   == normalize_isbn(isbn(item))
         IN  IF ~IsFalsy(key) THEN Put(index, key, item) ELSE index

\* isbn_lookup with the 10-digit identifier looked up first
isbn_lookup_10_first(book, abs_index) ==
    LET isbn13 == normalize_isbn(ISBN13(book))
        isbn10 == normalize_isbn(ISBN(book))
    IN  IF ~IsFalsy(isbn10) /\ isbn10 \in DOMAIN abs_index THEN abs_index[isbn10]
        ELSE IF ~IsFalsy(isbn13) /\ isbn13 \in DOMAIN abs_index THEN abs_index[isbn13]
        ELSE None

\* the body of the loop of match_by_isbn: the item matched, or None
isbn_lookup(book, abs_index) ==
    LET isbn13 == normalize_isbn(ISBN13(book))
        isbn10 == normalize_isbn(ISBN(book))
    IN  IF ~IsFalsy(isbn13) /\ isbn13 \in DOMAIN abs_index THEN abs_index[isbn13]
        ELSE IF ~IsFalsy(isbn10) /\ isbn10 \in DOMAIN abs_index THEN abs_index[isbn10]
        ELSE None

RECURSIVE match_by_isbn(_, _)
match_by_isbn(goodreads_books, abs_index) ==
    IF goodreads_books = <<>> THEN [matches |-> <<>>, unmatched |-> <<>>]
    ELSE LET n     == Len(goodreads_books)
             acc   == match_by_isbn(SubSeq(goodreads_books, 1, n - 1), abs_index)
             book  == goodreads_books[n]
             match == isbn_lookup(book, abs_index)
         IN  IF ~IsFalsy(match)
             THEN [acc EXCEPT !.matches = Append(@, <<book, match>>)]
             ELSE [acc EXCEPT !.unmatched = Append(@, book)]

(***************************************************************************)
(* Tier 2: exact normalised title and author                               *)
(***************************************************************************)
RECURSIVE index_abs_items_by_title_author(_)
index_abs_items_by_title_author(items) ==
    IF items = <<>> THEN <<>>
    ELSE LET index == index_abs_items_by_title_author(SubSeq(items, 1, Len(items) - 1))
             item  == items[Len(items)]
             t     == normalize_text(title(item))
             a     == normalize_text(author(item))
         IN  IF IsFalsy(t) \/ IsFalsy(a) THEN index
             ELSE AppendAt(index, <<t, a>>, item)

\* AcceptCandidates taking the first of several candidates
AcceptCandidatesAny(candidates) == Len(candidates) >= 1

\* the test of the candidate list in match_by_title_author
AcceptCandidates(candidates) == Len(candidates) = 1

\* match_by_title_author without its last else: a matched row stays in the residual
RECURSIVE match_by_title_author_keep(_, _)
match_by_title_author_keep(goodreads_books, abs_index) ==
    IF goodreads_books = <<>> THEN [matches |-> <<>>, unmatched |-> <<>>]
    ELSE LET n    == Len(goodreads_books)
             acc  == match_by_title_author_keep(SubSeq(goodreads_books, 1, n - 1),
                                                abs_index)
             book == goodreads_books[n]
             t    == normalize_text(Title(book))
             a    == normalize_text(Author(book))
             candidates == IF IsFalsy(t) \/ IsFalsy(a) THEN <<>>
                           ELSE GetList(abs_index, <<t, a>>)
         IN  [matches   |-> IF AcceptCandidates(candidates)
                            THEN Append(acc.matches, <<book, candidates[1]>>)
                            ELSE acc.matches,
              unmatched |-> Append(acc.unmatched, book)]

RECURSIVE match_by_title_author(_, _)
match_by_title_author(goodreads_books, abs_index) ==
    IF goodreads_books = <<>> THEN [matches |-> <<>>, unmatched |-> <<>>]
    ELSE LET n    == Len(goodreads_books)
             acc  == match_by_title_author(SubSeq(goodreads_books, 1, n - 1), abs_index)
             book == goodreads_books[n]
             t    == normalize_text(Title(book))
             a    == normalize_text(Author(book))
         IN  IF IsFalsy(t) \/ IsFalsy(a)
             THEN [acc EXCEPT !.unmatched = Append(@, book)]
             ELSE LET candidates == GetList(abs_index, <<t, a>>)
                  IN  IF AcceptCandidates(candidates)
                      THEN [acc EXCEPT !.matches = Append(@, <<book, candidates[1]>>)]
                      ELSE [acc EXCEPT !.unmatched = Append(@, book)]

(***************************************************************************)
(* Tier 3: fuzzy title and author                                          *)
(***************************************************************************)
\* 0.9 and 0.85
TitleThreshold  == <<90, 100>>
AuthorThreshold == <<85, 100>>

\* Qualifies with "or" for "and"
QualifiesEither(gr_title, gr_author, abs_title, abs_author) ==
    \/ AtLeast(similarity(gr_title, abs_title), TitleThreshold)
    \/ AtLeast(similarity(gr_author, abs_author), AuthorThreshold)

\* the test of line 316
Qualifies(gr_title, gr_author, abs_title, abs_author) ==
    /\ AtLeast(similarity(gr_title, abs_title), TitleThreshold)
    /\ AtLeast(similarity(gr_author, abs_author), AuthorThreshold)

RECURSIVE fuzzy_candidates(_, _, _)
fuzzy_candidates(gr_title, gr_author, items) ==
    IF items = <<>> THEN <<>>
    ELSE LET candidates == fuzzy_candidates(gr_title, gr_author,
                                            SubSeq(items, 1, Len(items) - 1))
             item       == items[Len(items)]
             abs_title  == normalize_text(title(item))
             abs_author == normalize_text(author(item))
         IN  IF IsFalsy(abs_title) \/ IsFalsy(abs_author) THEN candidates
             ELSE IF Qualifies(gr_title, gr_author, abs_title, abs_author)
                  THEN Append(candidates, item)
                  ELSE candidates

fuzzy_match_title_author(book, items) ==
    LET gr_title  == normalize_text(Title(book))
        gr_author == normalize_text(Author(book))
    IN  IF IsFalsy(gr_title) \/ IsFalsy(gr_author) THEN None
        ELSE LET candidates == fuzzy_candidates(gr_title, gr_author, items)
             IN  IF Len(candidates) = 1 THEN candidates[1] ELSE None

(***************************************************************************)
(* Inputs.  The raw texts the rows and items are built from.               *)
(***************************************************************************)
tAbcde       == <<"A","b","c","d","e">>
tAbcdeSub    == <<"a","b","c","d","e",":"," ","x">>
tAbcdeSeries == <<"a","b","c","d","e"," ","(","1",")">>
tAbcdef      == <<"A","b","c","d","e","f">>
tBang        == <<"!">>
aBob         == <<"B","o","b">>
aBobDot      == <<"B","O","B",".">>
aBobb        == <<"B","o","b","b">>
aBo          == <<"B","o">>
i12          == <<"1","2">>
i1dash2      == <<"1","-","2">>
i1space2     == <<"1"," ","2">>
i3           == <<"3">>
iDash        == <<"-">>

\* <<Title, Author, ISBN13, ISBN>>
BookPool ==
    { <<tAbcde,    aBob,    i1dash2, None>>,
      <<tAbcdeSub, aBobDot, iDash,   i3>>,
      <<tAbcdef,   aBobb,   None,    None>>,
      <<tAbcdef,   aBo,     <<>>,    <<>>>>,
      <<tBang,     aBob,    i3,      i12>> }

\* <<title, author, isbn>>
ItemPool ==
    { <<tAbcde,       aBob,    i12>>,
      <<tAbcdeSeries, aBobDot, i3>>,
      <<tAbcdef,      aBobb,   i1space2>>,
      <<tBang,        None,    iDash>> }

SeqsUpTo(S, n) == UNION {[1..k -> S] : k \in 0..n}

\* number the rows (their position in the export) and the items (their id)
Numbered(fields) == [i \in 1..Len(fields) |-> <<i>> \o fields[i]]

yes == <<"y","e","s">>
\* what the user may type: " YES " is accepted, the others are not
ConfirmInputs ==
    { <<" ","Y","E","S"," ">>, <<"y">>, <<"y","e","s","!">>, <<>> }

(***************************************************************************)
(* main(), from line 389 on                                                *)
(***************************************************************************)
Init ==
    /\ pc = "tier1"
    /\ apply \in BOOLEAN
    /\ \E f \in SeqsUpTo(BookPool, MaxBooks) : read_books = Numbered(f)
    /\ \E f \in SeqsUpTo(ItemPool, MaxItems) : abs_items = Numbered(f)
    /\ isbn_matches = <<>>
    /\ remaining = <<>>
    /\ ta_matches = <<>>
    /\ still_unmatched = <<>>
    /\ fuzzy_matches = <<>>
    /\ still_unmatched_final = <<>>
    /\ offered = <<>>
    /\ all_matches = <<>>
    /\ confirm = None
    /\ calls = <<>>
    /\ success = 0
    /\ failed = 0
    /\ value = None
    /\ once = None
    /\ twice = None

\* lines 389-390
Tier1 ==
    /\ pc = "tier1"
    /\ LET r == match_by_isbn(read_books, index_abs_items_by_isbn(abs_items))
       IN  /\ isbn_matches' = r.matches
           /\ remaining' = r.unmatched
    /\ pc' = "tier2"
    /\ UNCHANGED <<apply, read_books, abs_items, ta_matches, still_unmatched,
                   fuzzy_matches, still_unmatched_final, offered, all_matches,
                   confirm, calls, success, failed, value, once, twice>>

\* lines 392-393
Tier2 ==
    /\ pc = "tier2"
    /\ LET r == match_by_title_author(remaining,
                                      index_abs_items_by_title_author(abs_items))
       IN  /\ ta_matches' = r.matches
           /\ still_unmatched' = r.unmatched
    /\ pc' = "tier3"
    /\ UNCHANGED <<apply, read_books, abs_items, isbn_matches, remaining,
                   fuzzy_matches, still_unmatched_final, offered, all_matches,
                   confirm, calls, success, failed, value, once, twice>>

\* lines 398-403, one iteration of the loop
Tier3 ==
    /\ pc = "tier3"
    /\ Len(offered) < Len(still_unmatched)
    /\ LET book  == still_unmatched[Len(offered) + 1]
           match == fuzzy_match_title_author(book, abs_items)
       IN  /\ offered' = Append(offered, book)
           /\ IF ~IsFalsy(match)
              THEN /\ fuzzy_matches' = Append(fuzzy_matches, <<book, match>>)
                   /\ UNCHANGED still_unmatched_final
              ELSE /\ still_unmatched_final' = Append(still_unmatched_final, book)
                   /\ UNCHANGED fuzzy_matches
    /\ UNCHANGED <<pc, apply, read_books, abs_items, isbn_matches, remaining,
                   ta_matches, still_unmatched, all_matches, confirm, calls,
                   success, failed, value, once, twice>>

\* Concat with the exact-text pairs put first
ConcatTextFirst ==
    /\ pc = "tier3"
    /\ Len(offered) = Len(still_unmatched)
    /\ all_matches' = ta_matches \o isbn_matches \o fuzzy_matches
    /\ pc' = "preview"
    /\ UNCHANGED <<apply, read_books, abs_items, isbn_matches, remaining,
                   ta_matches, still_unmatched, fuzzy_matches,
                   still_unmatched_final, offered, confirm, calls, success,
                   failed, value, once, twice>>

\* line 405
Concat ==
    /\ pc = "tier3"
    /\ Len(offered) = Len(still_unmatched)
    /\ all_matches' = isbn_matches \o ta_matches \o fuzzy_matches
    /\ pc' = "preview"
    /\ UNCHANGED <<apply, read_books, abs_items, isbn_matches, remaining,
                   ta_matches, still_unmatched, fuzzy_matches,
                   still_unmatched_final, offered, confirm, calls, success,
                   failed, value, once, twice>>

\* lines 415-418
DryRun ==
    /\ pc = "preview"
    /\ ~apply
    /\ pc' = "dry_run_complete"
    /\ UNCHANGED <<apply, read_books, abs_items, isbn_matches, remaining,
                   ta_matches, still_unmatched, fuzzy_matches,
                   still_unmatched_final, offered, all_matches, confirm, calls,
                   success, failed, value, once, twice>>

\* Confirmed accepting any answer that starts with "y"
ConfirmedInitial(answer) ==
    LET a == Lower(Strip(answer)) IN a # <<>> /\ a[1] = "y"

\* lines 420-425: the answer that lets the run go on
Confirmed(answer) == Lower(Strip(answer)) = yes

\* lines 420-431
Confirm ==
    /\ pc = "preview"
    /\ apply
    /\ \E answer \in ConfirmInputs :
          /\ confirm' = answer
          /\ pc' = IF Confirmed(answer) THEN "apply" ELSE "aborted"
    /\ UNCHANGED <<apply, read_books, abs_items, isbn_matches, remaining,
                   ta_matches, still_unmatched, fuzzy_matches,
                   still_unmatched_final, offered, all_matches, calls, success,
                   failed, value, once, twice>>

\* ApplyOne leaving the loop at the first failed call
ApplyOneStopOnFail ==
    /\ pc = "apply"
    /\ Len(calls) < Len(all_matches)
    /\ \E ok \in BOOLEAN :
          LET abs_item == all_matches[Len(calls) + 1][2]
          IN  /\ calls' = Append(calls, <<id(abs_item), ok>>)
              /\ IF ok THEN success' = success + 1 /\ UNCHANGED <<failed, pc>>
                       ELSE failed' = failed + 1 /\ pc' = "done" /\ UNCHANGED success
    /\ UNCHANGED <<apply, read_books, abs_items, isbn_matches, remaining,
                   ta_matches, still_unmatched, fuzzy_matches,
                   still_unmatched_final, offered, all_matches, confirm, value,
                   once, twice>>

\* lines 434-441, one iteration of the loop; ok is what mark_item_finished
\* returns (True, or False on a requests.RequestException)
ApplyOne ==
    /\ pc = "apply"
    /\ Len(calls) < Len(all_matches)
    /\ \E ok \in BOOLEAN :
          LET abs_item == all_matches[Len(calls) + 1][2]
          IN  /\ calls' = Append(calls, <<id(abs_item), ok>>)
              /\ IF ok THEN success' = success + 1 /\ UNCHANGED failed
                       ELSE failed' = failed + 1 /\ UNCHANGED success
    /\ UNCHANGED <<pc, apply, read_books, abs_items, isbn_matches, remaining,
                   ta_matches, still_unmatched, fuzzy_matches,
                   still_unmatched_final, offered, all_matches, confirm, value,
                   once, twice>>

\* lines 443-445
ApplyDone ==
    /\ pc = "apply"
    /\ Len(calls) = Len(all_matches)
    /\ pc' = "done"
    /\ UNCHANGED <<apply, read_books, abs_items, isbn_matches, remaining,
                   ta_matches, still_unmatched, fuzzy_matches,
                   still_unmatched_final, offered, all_matches, confirm, calls,
                   success, failed, value, once, twice>>

Next ==
    \/ Tier1
    \/ Tier2
    \/ Tier3
    \/ Concat
    \/ DryRun
    \/ Confirm
    \/ ApplyOne
    \/ ApplyDone

Spec == Init /\ [][Next]_vars

(***************************************************************************)
(* The normaliser on its own: every text over NormChars of at most         *)
(* MaxTextLen characters (and None) is normalised, and the result is       *)
(* normalised again.                                                       *)
(***************************************************************************)
NormChars == {"a", "B", " ", ":", "(", ")", "!"}

NormInit ==
    /\ pc = "raw"
    /\ value \in SeqsUpTo(NormChars, MaxTextLen) \cup {None}
    /\ once = None
    /\ twice = None
    /\ apply = FALSE
    /\ read_books = <<>>
    /\ abs_items = <<>>
    /\ isbn_matches = <<>>
    /\ remaining = <<>>
    /\ ta_matches = <<>>
    /\ still_unmatched = <<>>
    /\ fuzzy_matches = <<>>
    /\ still_unmatched_final = <<>>
    /\ offered = <<>>
    /\ all_matches = <<>>
    /\ confirm = None
    /\ calls = <<>>
    /\ success = 0
    /\ failed = 0

NormalizeOnce ==
    /\ pc = "raw"
    /\ once' = normalize_text(value)
    /\ pc' = "once"
    /\ UNCHANGED <<apply, read_books, abs_items, isbn_matches, remaining,
                   ta_matches, still_unmatched, fuzzy_matches,
                   still_unmatched_final, offered, all_matches, confirm, calls,
                   success, failed, value, twice>>

NormalizeTwice ==
    /\ pc = "once"
    /\ twice' = normalize_text(once)
    /\ pc' = "twice"
    /\ UNCHANGED <<apply, read_books, abs_items, isbn_matches, remaining,
                   ta_matches, still_unmatched, fuzzy_matches,
                   still_unmatched_final, offered, all_matches, confirm, calls,
                   success, failed, value, once>>

NormNext == NormalizeOnce \/ NormalizeTwice

SpecNorm == NormInit /\ [][NormNext]_vars

(***************************************************************************)
(* Tier 3 on its own: one row, built from FuzzyBookTitles and              *)
(* FuzzyBookAuthors, is matched against at most MaxItems items built from  *)
(* FuzzyItemTitles and FuzzyItemAuthors.                                   *)
(***************************************************************************)
tAbcdx == <<"a","b","c","d","x">>

FuzzyBookTitles  == {tAbcde, tAbcdef, tBang}
FuzzyBookAuthors == {aBob, aBo, None}
FuzzyItemTitles  == {tAbcde, tAbcdef, tAbcdx, tBang}
FuzzyItemAuthors == {aBob, aBobb, None}

FuzzyInit ==
    /\ pc = "tier3"
    /\ \E t \in FuzzyBookTitles, a \in FuzzyBookAuthors :
          still_unmatched = Numbered(<< <<t, a, None, None>> >>)
    /\ \E f \in SeqsUpTo(FuzzyItemTitles \X FuzzyItemAuthors \X {None}, MaxItems) :
          abs_items = Numbered(f)
    /\ read_books = still_unmatched
    /\ remaining = still_unmatched
    /\ apply = FALSE
    /\ isbn_matches = <<>>
    /\ ta_matches = <<>>
    /\ fuzzy_matches = <<>>
    /\ still_unmatched_final = <<>>
    /\ offered = <<>>
    /\ all_matches = <<>>
    /\ confirm = None
    /\ calls = <<>>
    /\ success = 0
    /\ failed = 0
    /\ value = None
    /\ once = None
    /\ twice = None

SpecFuzzy == FuzzyInit /\ [][Tier3]_vars

(***************************************************************************)
(* Properties                                                              *)
(***************************************************************************)
Range(seq) == {seq[k] : k \in 1..Len(seq)}
BooksOf(pairs) == {pairs[k][1] : k \in 1..Len(pairs)}
IdsOf(pairs) == {id(pairs[k][2]) : k \in 1..Len(pairs)}
\* how many times a row occurs in a list of rows / as the row of a list of pairs
CountIn(seq, book) == Cardinality({k \in 1..Len(seq) : seq[k] = book})
CountPairs(pairs, book) == Cardinality({k \in 1..Len(pairs) : pairs[k][1] = book})
Usable(text) == text # None /\ text # <<>>

\* C6: normalize_text is idempotent: whenever normalize_text(x) is not None,
\* normalize_text(normalize_text(x)) = normalize_text(x).
C6_NormalizeTextIdempotent ==
    (pc = "twice" /\ once # None) => twice = once

\* The items that qualify for a row under tier 3: normalised title and author
\* present on both sides, title ratio >= 0.90 and author ratio >= 0.85.
FuzzyQualifying(book) ==
    LET bt == normalize_text(Title(book))
        ba == normalize_text(Author(book))
    IN  { k \in 1..Len(abs_items) :
            LET it == normalize_text(title(abs_items[k]))
                ia == normalize_text(author(abs_items[k]))
            IN  /\ Usable(bt) /\ Usable(ba) /\ Usable(it) /\ Usable(ia)
                /\ 10 * similarity(bt, it)[1] >= 9 * similarity(bt, it)[2]
                /\ 100 * similarity(ba, ia)[1] >= 85 * similarity(ba, ia)[2] }

\* C4: tier 3 matches a row with an item if and only if that item is the only
\* one whose title ratio is >= 0.90 and whose author ratio is >= 0.85; with no
\* or several such items the row is left unmatched.
C4_FuzzyIffExactlyOneQualifies ==
    \A n \in 1..Len(offered) :
        LET book == offered[n]
            Q    == FuzzyQualifying(book)
        IN  /\ \A k \in 1..Len(abs_items) :
                  (<<book, abs_items[k]>> \in Range(fuzzy_matches)) <=> (Q = {k})
            /\ (Cardinality(Q) # 1) <=> (book \in Range(still_unmatched_final))
            /\ CountPairs(fuzzy_matches, book) + CountIn(still_unmatched_final, book) = 1

\* a row that met the title threshold with some item and is left unmatched
\* because no item met both
C4_Witness ==
    /\ Len(offered) = 1
    /\ fuzzy_matches = <<>>
    /\ \E k \in 1..Len(abs_items) :
          LET bt == normalize_text(Title(offered[1]))
              ba == normalize_text(Author(offered[1]))
              it == normalize_text(title(abs_items[k]))
              ia == normalize_text(author(abs_items[k]))
          IN  /\ Usable(bt) /\ Usable(ba) /\ Usable(it) /\ Usable(ia)
              /\ 10 * similarity(bt, it)[1] >= 9 * similarity(bt, it)[2]
              /\ bt # it
              /\ 100 * similarity(ba, ia)[1] < 85 * similarity(ba, ia)[2]

\* C1: no two pairs of the final match list hold the same item id.
C1_NoItemMatchedTwice ==
    \A p, q \in 1..Len(all_matches) :
        p # q => id(all_matches[p][2]) # id(all_matches[q][2])

\* The candidates tier 2 counts for a row: the index entry of its key.
Tier2Candidates(book) ==
    LET t == normalize_text(Title(book))
        a == normalize_text(Author(book))
    IN  IF Usable(t) /\ Usable(a)
        THEN GetList(index_abs_items_by_title_author(abs_items), <<t, a>>)
        ELSE <<>>

\* The candidates tier 3 counts for a row.
Tier3Candidates(book) ==
    LET t == normalize_text(Title(book))
        a == normalize_text(Author(book))
    IN  IF Usable(t) /\ Usable(a) THEN fuzzy_candidates(t, a, abs_items) ELSE <<>>

\* C2: an item matched by an earlier tier is neither a candidate nor a match
\* of a later tier.
C2_EarlierTierItemsExcluded ==
    /\ IdsOf(ta_matches) \cap IdsOf(isbn_matches) = {}
    /\ IdsOf(fuzzy_matches) \cap (IdsOf(isbn_matches) \cup IdsOf(ta_matches)) = {}
    /\ pc # "tier1" =>
          \A book \in Range(remaining) : \A item \in Range(Tier2Candidates(book)) :
              id(item) \notin IdsOf(isbn_matches)
    /\ \A book \in Range(offered) : \A item \in Range(Tier3Candidates(book)) :
              id(item) \notin IdsOf(isbn_matches) \cup IdsOf(ta_matches)

\* The items whose normalised (title, author) is the row's.
SameKeyItems(book) ==
    LET t == normalize_text(Title(book))
        a == normalize_text(Author(book))
    IN  { k \in 1..Len(abs_items) :
            /\ Usable(t) /\ Usable(a)
            /\ normalize_text(title(abs_items[k])) = t
            /\ normalize_text(author(abs_items[k])) = a }

\* C3: tier 2 matches a row only with the one item that has its normalised
\* (title, author); a row whose key is shared by two or more items (or by
\* none) goes to the tier's unmatched output.
C3_Tier2NoAmbiguousMatch ==
    pc \notin {"tier1", "tier2"} =>
        \A book \in Range(remaining) :
            LET K == SameKeyItems(book)
            IN  IF Cardinality(K) = 1
                THEN /\ <<book, abs_items[Min(K)]>> \in Range(ta_matches)
                     /\ CountPairs(ta_matches, book) = 1
                     /\ book \notin Range(still_unmatched)
                ELSE /\ book \notin BooksOf(ta_matches)
                     /\ book \in Range(still_unmatched)

\* tier 2 has run on a row whose key two items share
C3_Witness ==
    /\ pc \notin {"tier1", "tier2"}
    /\ \E book \in Range(remaining) :
          /\ Cardinality(SameKeyItems(book)) >= 2
          /\ book \in Range(still_unmatched)

\* The entry of the identifier index under a key: the last item with it.
HasIsbn(key) ==
    /\ Usable(key)
    /\ \E k \in 1..Len(abs_items) : normalize_isbn(isbn(abs_items[k])) = key
LastWithIsbn(key) ==
    abs_items[Max({k \in 1..Len(abs_items) : normalize_isbn(isbn(abs_items[k])) = key})]

\* C5: tier 1 matches a row with the index entry of its normalised 13-digit
\* identifier if the index has it, else with the entry of its normalised
\* 10-digit identifier if the index has it, and else leaves it to the
\* residual; a row with no usable identifier is never matched.
C5_Tier1ThirteenThenTen ==
    pc # "tier1" =>
        \A book \in Range(read_books) :
            LET k13 == normalize_isbn(ISBN13(book))
                k10 == normalize_isbn(ISBN(book))
            IN  IF HasIsbn(k13)
                THEN /\ <<book, LastWithIsbn(k13)>> \in Range(isbn_matches)
                     /\ CountPairs(isbn_matches, book) = 1
                     /\ book \notin Range(remaining)
                ELSE IF HasIsbn(k10)
                THEN /\ <<book, LastWithIsbn(k10)>> \in Range(isbn_matches)
                     /\ CountPairs(isbn_matches, book) = 1
                     /\ book \notin Range(remaining)
                ELSE /\ book \in Range(remaining)
                     /\ book \notin BooksOf(isbn_matches)

\* tier 1 has matched a row through its 10-digit identifier, its 13-digit one
\* being unusable, and has passed on a row with no identifier at all
C5_Witness ==
    /\ pc # "tier1"
    /\ \E book \in BooksOf(isbn_matches) :
          /\ normalize_isbn(ISBN13(book)) = None
          /\ HasIsbn(normalize_isbn(ISBN(book)))
    /\ \E book \in Range(remaining) :
          /\ normalize_isbn(ISBN13(book)) = None
          /\ normalize_isbn(ISBN(book)) = None

\* C7: the apply loop calls the update once per pair of the match list, in
\* list order, whatever the earlier calls returned, and ends with
\* success + failed = the number of pairs.
C7_OneCallPerPair ==
    /\ Len(calls) <= Len(all_matches)
    /\ \A k \in 1..Len(calls) : calls[k][1] = id(all_matches[k][2])
    /\ success = Cardinality({k \in 1..Len(calls) : calls[k][2]})
    /\ failed = Cardinality({k \in 1..Len(calls) : ~calls[k][2]})
    /\ pc = "done" => /\ Len(calls) = Len(all_matches)
                      /\ success + failed = Len(all_matches)

\* the loop has ended after a failed first call and a successful second one
C7_Witness ==
    /\ pc = "done"
    /\ Len(calls) = 2
    /\ ~calls[1][2]
    /\ calls[2][2]

\* C8: every row ends up exactly once, as the row of one pair of the final
\* match list or in the final unmatched list; every tier hands each row it
\* receives to exactly one of its two outputs, receives only rows the tier
\* before left unmatched, and receives no row twice.
C8_RowsPartitioned ==
    /\ pc # "tier1" =>
          /\ \A book \in Range(read_books) :
                CountPairs(isbn_matches, book) + CountIn(remaining, book) = 1
          /\ BooksOf(isbn_matches) \cup Range(remaining) \subseteq Range(read_books)
    /\ pc \notin {"tier1", "tier2"} =>
          /\ \A book \in Range(remaining) :
                CountPairs(ta_matches, book) + CountIn(still_unmatched, book) = 1
          /\ BooksOf(ta_matches) \cup Range(still_unmatched) \subseteq Range(remaining)
    /\ offered = SubSeq(still_unmatched, 1, Len(offered))
    /\ \A book \in Range(offered) :
          /\ CountIn(offered, book) = 1
          /\ CountPairs(fuzzy_matches, book) + CountIn(still_unmatched_final, book) = 1
    /\ BooksOf(fuzzy_matches) \cup Range(still_unmatched_final) \subseteq Range(offered)
    /\ pc \notin {"tier1", "tier2", "tier3"} =>
          \A book \in Range(read_books) :
              CountPairs(all_matches, book) + CountIn(still_unmatched_final, book) = 1

\* the pipeline has ended with one row matched by tier 2 and one row that
\* went through all three tiers unmatched
C8_Witness ==
    /\ pc = "preview"
    /\ ta_matches # <<>>
    /\ still_unmatched_final # <<>>
    /\ Len(read_books) = 2

\* The tier that matched a row, and the input of that tier.
TierOf(book) ==
    IF book \in BooksOf(isbn_matches) THEN 1
    ELSE IF book \in BooksOf(ta_matches) THEN 2 ELSE 3
TierInput(n) ==
    IF n = 1 THEN read_books ELSE IF n = 2 THEN remaining ELSE still_unmatched
PositionIn(seq, book) == Min({k \in 1..Len(seq) : seq[k] = book})

\* C9: the final match list holds the pairs of the three tiers, the
\* identifier pairs before the exact-text pairs before the fuzzy pairs, and
\* those of one tier in the order of their rows in that tier's input.
C9_TierOrderKept ==
    pc \notin {"tier1", "tier2", "tier3"} =>
        /\ Range(all_matches) =
              Range(isbn_matches) \cup Range(ta_matches) \cup Range(fuzzy_matches)
        /\ Len(all_matches) = Len(isbn_matches) + Len(ta_matches) + Len(fuzzy_matches)
        /\ \A p, q \in 1..Len(all_matches) :
              p < q =>
                 LET bp == all_matches[p][1]
                     bq == all_matches[q][1]
                 IN  \/ TierOf(bp) < TierOf(bq)
                     \/ /\ TierOf(bp) = TierOf(bq)
                        /\ PositionIn(TierInput(TierOf(bp)), bp)
                              < PositionIn(TierInput(TierOf(bq)), bq)

\* the final list holds the identifier pair of the second row followed by
\* the exact-text pair of the first row
C9_Witness ==
    /\ pc = "preview"
    /\ Len(all_matches) = 2
    /\ all_matches[1] \in Range(isbn_matches)
    /\ all_matches[2] \in Range(ta_matches)
    /\ all_matches[1][1][1] = 2
    /\ all_matches[2][1][1] = 1

\* C10: no update call is made unless the run has --apply and the answer to
\* the confirmation prompt, stripped and lower-cased, is "yes"; a dry run or
\* any other answer ends the run with no call.
C10_NoCallWithoutConfirmation ==
    /\ calls # <<>> => (apply /\ confirm # None /\ Lower(Strip(confirm)) = yes)
    /\ pc = "apply" => (apply /\ confirm # None /\ Lower(Strip(confirm)) = yes)
    /\ pc \in {"dry_run_complete", "aborted"} => calls = <<>>

\* a run with --apply and a non-empty match list ended by the answer "y"
C10_Witness ==
    /\ pc = "aborted"
    /\ apply
    /\ all_matches # <<>>
    /\ confirm = <<"y">>
    /\ calls = <<>>

====
